---- MODULE Spec2Model ----
(***************************************************************************)
(* A model of core/scripts/bootstrap.py: main() builds a project           *)
(* configuration (interactively or from flags) and setup_project() fetches *)
(* the core files and the domain files, writes CLAUDE.md and .gitignore    *)
(* and makes the hooks executable.                                         *)
(*                                                                         *)
(* Text is a sequence of characters (one-character strings); a literal of  *)
(* a template that no operation looks into is one token of the sequence.   *)
(* A path is a sequence of components, an absolute one starting with "/".  *)
(***************************************************************************)
EXTENDS Integers, Sequences, FiniteSets, TLC

VARIABLES
    pc,         \* the step of main/setup_project that runs next
    args,       \* the parsed command line (argparse namespace)
    requested,  \* the comma-free pieces --domains was typed as
    remote,     \* how the remote answers: "flaky", "down" or "up"
    mode,       \* which branch of main built the configuration
    prompts,    \* number of input() calls made so far
    config,     \* the project configuration
    coreIdx,    \* position in core_files
    domIdx,     \* position in config['domains']
    pending,    \* the files of the manifest being applied, in loop order
    fileIdx,    \* position in pending
    dirs,       \* directories that exist
    fileMode,   \* fetched files that exist, with their permission
    claudeMd,   \* CLAUDE.md
    gitignore,  \* .gitignore
    log,        \* every file-system and network operation, in order
    stdout,     \* the failures printed
    giRuns,     \* number of create_gitignore runs (repeated-run specification)
    giHistory   \* .gitignore before the first run and after each run

vars == <<pc, args, requested, remote, mode, prompts, config, coreIdx, domIdx,
          pending, fileIdx, dirs, fileMode, claudeMd, gitignore, log, stdout,
          giRuns, giHistory>>

(***************************************************************************)
(* Bounds                                                                  *)
(***************************************************************************)
\* pieces of --domains against the flaky remote
MaxDomains == 2
\* pieces of --domains against the remote that is down or up
MaxPieces == 2
\* characters of a pre-existing .gitignore
MaxLen == 4
\* repeated runs of create_gitignore
MaxRuns == 3

(***************************************************************************)
(* Text                                                                    *)
(***************************************************************************)
NL == "\n"
Whitespace == {" ", NL}

RECURSIVE JoinStr(_, _)
\* sep.join(list)
JoinStr(list, sep) ==
    IF list = <<>> THEN <<>>
    ELSE IF Len(list) = 1 THEN list[1]
    ELSE list[1] \o sep \o JoinStr(Tail(list), sep)

\* s[i:i+len(sub)] == sub
MatchAt(s, sub, i) ==
    /\ i + Len(sub) - 1 <= Len(s)
    /\ \A k \in 1..Len(sub) : s[i + k - 1] = sub[k]

\* sub in s
Contains(s, sub) == \E i \in 1..(Len(s) + 1) : MatchAt(s, sub, i)

\* s.find(sub) + 1, 0 when absent
FindStr(s, sub) ==
    IF Contains(s, sub)
    THEN CHOOSE i \in 1..(Len(s) + 1) :
            /\ MatchAt(s, sub, i)
            /\ \A j \in 1..(i - 1) : ~MatchAt(s, sub, j)
    ELSE 0

RECURSIVE SplitStr(_, _)
\* s.split(sep), sep not empty
SplitStr(s, sep) ==
    LET i == FindStr(s, sep) IN
    IF i = 0 THEN <<s>>
    ELSE <<SubSeq(s, 1, i - 1)>> \o SplitStr(SubSeq(s, i + Len(sep), Len(s)), sep)

RECURSIVE LStrip(_)
LStrip(s) == IF s # <<>> /\ s[1] \in Whitespace THEN LStrip(Tail(s)) ELSE s

RECURSIVE RStrip(_)
RStrip(s) ==
    IF s # <<>> /\ s[Len(s)] \in Whitespace THEN RStrip(SubSeq(s, 1, Len(s) - 1)) ELSE s

\* s.strip()
Strip(s) == RStrip(LStrip(s))

\* the letters of the model's texts, lower case and upper case
CasePairs ==
    {<<"a", "A">>, <<"b", "B">>, <<"c", "C">>, <<"d", "D">>, <<"e", "E">>,
     <<"g", "G">>, <<"h", "H">>, <<"i", "I">>, <<"k", "K">>, <<"l", "L">>,
     <<"m", "M">>, <<"n", "N">>, <<"o", "O">>, <<"p", "P">>, <<"r", "R">>,
     <<"s", "S">>, <<"t", "T">>, <<"w", "W">>, <<"y", "Y">>}
UpperOf == [c \in {p[1] : p \in CasePairs} |-> (CHOOSE p \in CasePairs : p[1] = c)[2]]
LowerOf == [c \in {p[2] : p \in CasePairs} |-> (CHOOSE p \in CasePairs : p[2] = c)[1]]
Letters == DOMAIN UpperOf \cup DOMAIN LowerOf

UpperChar(c) == IF c \in DOMAIN UpperOf THEN UpperOf[c] ELSE c
LowerChar(c) == IF c \in DOMAIN LowerOf THEN LowerOf[c] ELSE c

\* s.lower()
Lower(s) == [i \in 1..Len(s) |-> LowerChar(s[i])]

\* s.title(): a letter after a non-letter is upper-cased, any other lower-cased
Title(s) ==
    [i \in 1..Len(s) |->
        IF i = 1 \/ s[i - 1] \notin Letters THEN UpperChar(s[i]) ELSE LowerChar(s[i])]

\* s.replace(a, b) for one-character a
ReplaceChar(s, a, b) == [i \in 1..Len(s) |-> IF s[i] = a THEN b ELSE s[i]]

git == <<"g", "i", "t">>
python == <<"p", "y", "t", "h", "o", "n">>
aws == <<"a", "w", "s">>
docker == <<"d", "o", "c", "k", "e", "r">>
database == <<"d", "a", "t", "a", "b", "a", "s", "e">>

available_domains == <<git, python, aws, docker, database>>

project_types == <<"Web API", "Data Pipeline", "CLI Tool", "Web Application",
                   "Library/Package", "Custom">>

(***************************************************************************)
(* Paths                                                                   *)
(***************************************************************************)
project_root == <<"/", "home", "proj">>

\* Path.__truediv__: an absolute right operand replaces the left one
PathJoin(base, p) == IF p # <<>> /\ p[1] = "/" THEN p ELSE base \o p

RECURSIVE Resolve(_)
\* the file the operating system opens for a path: ".." steps to the parent
Resolve(p) ==
    IF p = <<>> THEN <<>>
    ELSE LET front == Resolve(SubSeq(p, 1, Len(p) - 1))
             last == p[Len(p)]
         IN IF last = ".." THEN (IF Len(front) > 1 THEN SubSeq(front, 1, Len(front) - 1)
                                 ELSE front)
            ELSE Append(front, last)

Parent(p) == SubSeq(p, 1, Len(p) - 1)

IsPrefix(a, b) == Len(a) <= Len(b) /\ SubSeq(b, 1, Len(a)) = a

claude_dir == PathJoin(project_root, <<".claude">>)
hooks_dir == PathJoin(claude_dir, <<"hooks">>)
claude_md_path == PathJoin(project_root, <<"CLAUDE.md">>)
gitignore_path == PathJoin(project_root, <<".gitignore">>)

core_files == <<
    <<"core", ".claude", "settings.json">>,
    <<"core", ".claude", "hooks", "pre-tool-use-safety.py">>,
    <<"core", ".claude", "hooks", "project-boundary.py">>,
    <<"core", ".claude", "commands", "help.md">> >>

\* file_path.replace("core/", "")
StripCore(p) == SelectSeq(p, LAMBDA c : c # "core")

\* the file names Path.glob("*.py") matches
PyNames == {"pre-tool-use-safety.py", "project-boundary.py", "lint.py"}
GlobPy(files) == {f \in files : Parent(f) = hooks_dir /\ f[Len(f)] \in PyNames}

(***************************************************************************)
(* main: the command line and the configuration                            *)
(***************************************************************************)
NotGiven == [given |-> FALSE, val |-> <<>>]
Given(s) == [given |-> TRUE, val |-> s]

\* Python truth of an optional string: neither None nor ''
Truthy(opt) == opt.given /\ opt.val # <<>>

\* the test of main with --domains left out of it
InteractiveModeNameOnly(a) == a.interactive \/ ~Truthy(a.name)

\* args.interactive or not (args.name and args.domains)
InteractiveMode(a) == a.interactive \/ ~(Truthy(a.name) /\ Truthy(a.domains))

\* the list of main without its "if d.strip() != 'git'"
FlagDomainsUnfiltered(text) ==
    LET parts == SplitStr(text, <<",">>)
    IN <<git>> \o [i \in 1..Len(parts) |-> Strip(parts[i])]

\* ['git'] + [d.strip() for d in args.domains.split(',') if d.strip() != 'git']
FlagDomains(text) ==
    LET parts == SplitStr(text, <<",">>)
        stripped == [i \in 1..Len(parts) |-> Strip(parts[i])]
    IN <<git>> \o SelectSeq(stripped, LAMBDA d : d # git)

\* the configuration of the non-interactive branch
FlagConfig(a) ==
    [name |-> a.name.val,
     type |-> IF Truthy(a.type) THEN a.type.val ELSE <<"Custom">>,
     domains |-> FlagDomains(a.domains.val),
     description |-> <<"A ">> \o (IF Truthy(a.type) THEN a.type.val ELSE <<"custom">>)
                        \o <<" project">>]

\* what the user types at the prompts of interactive_setup
TypeEmpty == [kind |-> "empty", n |-> 0]
TypeJunk == [kind |-> "junk", n |-> 0]
TypeInt(k) == [kind |-> "int", n |-> k]

\* int(input(...) or "1") within 1..len(project_types); 0 for a rejected input
TypeChoice(t) ==
    CASE t.kind = "empty" -> 1
      [] t.kind = "int" /\ 1 <= t.n /\ t.n <= Len(project_types) -> t.n
      [] OTHER -> 0

RECURSIVE TypeLoop(_)
\* the while loop of interactive_setup: <<choice, inputs read>>
TypeLoop(inputs) ==
    IF TypeChoice(Head(inputs)) # 0 THEN <<TypeChoice(Head(inputs)), 1>>
    ELSE LET rest == TypeLoop(Tail(inputs)) IN <<rest[1], rest[2] + 1>>

default_name == <<project_root[Len(project_root)]>>

\* response in ['y', 'yes'] after strip().lower()
SaysYes(answer) == Lower(Strip(answer)) \in {<<"y">>, <<"y", "e", "s">>}

\* the configuration interactive_setup returns for the typed inputs
InteractiveConfig(inp) ==
    LET others == SubSeq(available_domains, 2, Len(available_domains))
        picked == {i \in 1..Len(others) : SaysYes(inp.answers[i])}
        chosen == [i \in 1..Len(others) |-> IF i \in picked THEN others[i] ELSE <<>>]
    IN [name |-> IF Strip(inp.name) # <<>> THEN Strip(inp.name) ELSE default_name,
        type |-> <<project_types[TypeLoop(inp.types)[1]]>>,
        domains |-> <<git>> \o SelectSeq(chosen, LAMBDA d : d # <<>>),
        description |-> Strip(inp.description)]

\* input() calls interactive_setup makes for the typed inputs
InteractivePrompts(inp) ==
    1 + TypeLoop(inp.types)[2] + (Len(available_domains) - 1) + 1

(***************************************************************************)
(* create_claude_md and create_gitignore                                   *)
(***************************************************************************)
\* the join over the domains in reverse order
DomainsJoinedReversed(domains) ==
    JoinStr([i \in 1..Len(domains) |-> domains[Len(domains) + 1 - i]], <<",", " ">>)

\* ', '.join(config['domains'])
DomainsJoined(domains) == JoinStr(domains, <<",", " ">>)

RECURSIVE DomainBullets(_)
\* chr(10).join('- **{domain.title()}**: ...' for domain in config['domains'])
DomainBullets(domains) ==
    IF domains = <<>> THEN <<>>
    ELSE <<"- **">> \o Title(Head(domains))
           \o <<"**: Domain-specific tooling and practices">>
           \o (IF Len(domains) > 1 THEN <<NL>> \o DomainBullets(Tail(domains)) ELSE <<>>)

\* the text create_claude_md writes
ClaudeMdText(c) ==
    <<"# Claude Code Project Context", NL, NL, "## Project Overview", NL>>
    \o <<"**Name**: ">> \o c.name \o <<NL>>
    \o <<"**Type**: ">> \o c.type \o <<NL>>
    \o <<"**Description**: ">> \o c.description \o <<NL, NL>>
    \o <<"## Technology Stack", NL>>
    \o <<"**Domains**: ">> \o DomainsJoined(c.domains) \o <<NL, NL>>
    \o <<"## Development Principles ...", NL, NL, "## Project Structure ...", NL>>
    \o DomainBullets(c.domains) \o <<NL, NL>>
    \o <<"## Safety & Restrictions ...", NL, NL, "## Next Steps ...", NL, NL>>
    \o <<"## Memory Bank", NL, "This project uses memory bank: project-">>
    \o ReplaceChar(Lower(c.name), " ", "-") \o <<NL>>

Absent == [exists |-> FALSE, text |-> <<>>]
File(text) == [exists |-> TRUE, text |-> text]

\* "# Claude Code specific"
ClaudeMarker == <<"#", "c">>
\* gitignore_content: the marker line and the entries after it
gitignore_content == ClaudeMarker \o <<NL, "TODO.md ... *~", NL>>

\* create_gitignore without its test for the marker
GitignoreAfterAlwaysAppend(f) ==
    IF ~f.exists THEN File(gitignore_content)
    ELSE File(f.text \o <<NL>> \o gitignore_content)

\* .gitignore after create_gitignore
GitignoreAfter(f) ==
    IF ~f.exists THEN File(gitignore_content)
    ELSE IF ~Contains(f.text, ClaudeMarker) THEN File(f.text \o <<NL>> \o gitignore_content)
    ELSE f

(***************************************************************************)
(* The remote repository                                                   *)
(***************************************************************************)
\* fetch_domain_manifest returned None
NoManifest == [fetched |-> FALSE, nonempty |-> FALSE, files |-> <<>>]
\* the manifest {}
EmptyManifest == [fetched |-> TRUE, nonempty |-> FALSE, files |-> <<>>]
\* the manifest {"files": {".claude/hooks": ["run.sh"], "../shared": ["lint.py"]}}
HooksManifest ==
    [fetched |-> TRUE, nonempty |-> TRUE,
     files |-> << [dir |-> <<".claude", "hooks">>, names |-> <<"run.sh">>],
                  [dir |-> <<"..", "shared">>, names |-> <<"lint.py">>] >>]

\* what a manifest request may return
ManifestReplies(r) ==
    CASE r = "flaky" -> {NoManifest, EmptyManifest, HooksManifest}
      [] r = "down" -> {NoManifest}
      [] r = "up" -> {HooksManifest}

\* whether urlretrieve may succeed
FetchOutcomes(r) ==
    CASE r = "flaky" -> {TRUE, FALSE}
      [] r = "down" -> {FALSE}
      [] r = "up" -> {TRUE}

\* "if not manifest: return False" is not taken
Usable(m) == m.fetched /\ m.nonempty

RECURSIVE Listed(_)
\* the (dest_dir, file_name) pairs in the order the loops of apply_domain visit them
Listed(files) ==
    IF files = <<>> THEN <<>>
    ELSE [i \in 1..Len(Head(files).names) |->
             [dir |-> Head(files).dir, name |-> Head(files).names[i]]]
         \o Listed(Tail(files))

(***************************************************************************)
(* setup_project                                                           *)
(***************************************************************************)
\* setup_project with the project files created before the domains are applied
SetupStepsFilesFirst ==
    <<"mkdir", "core", "claude_md", "gitignore", "domains", "chmod", "complete">>

\* the steps of setup_project in program order
SetupSteps ==
    <<"mkdir", "core", "domains", "claude_md", "gitignore", "chmod", "complete">>

StepAfter(step) ==
    LET i == CHOOSE k \in 1..Len(SetupSteps) : SetupSteps[k] = step
    IN IF i = Len(SetupSteps) THEN "done" ELSE SetupSteps[i + 1]

\* a loop that fetches a failed file again
NextIndexRetry(i, n, ok) == IF ok THEN i + 1 ELSE i

\* a loop that a failed fetch ends
NextIndexStop(i, n, ok) == IF ok THEN i + 1 ELSE n + 1

\* the for loops over files go on whatever fetch_file returned
NextIndex(i, n, ok) == i + 1

\* a loop that a domain that was not applied ends
NextDomainStop(d, n, applied) == IF applied THEN d + 1 ELSE n + 1

\* the for loop over domains ignores what apply_domain returned
NextDomain(d, n, applied) == d + 1

Event(op, kind, d, k, dest, ok, n) ==
    [op |-> op, kind |-> kind, d |-> d, k |-> k, dest |-> dest, ok |-> ok, n |-> n]

\* fileMode after fetch_file: urlretrieve creates the file or overwrites its content
Fetched(fm, dest, ok) ==
    IF ok /\ Resolve(dest) \notin DOMAIN fm THEN fm @@ (Resolve(dest) :> "default") ELSE fm

\* stdout after fetch_file
Printed(out, kind, d, k, ok) ==
    IF ok THEN out ELSE Append(out, [msg |-> "Failed to fetch", kind |-> kind, d |-> d, k |-> k])

\* stdout after the warning of apply_domain
Warned(out, d, k, ok) ==
    IF ok THEN out
    ELSE Append(out, [msg |-> "Warning: Could not fetch", kind |-> "file", d |-> d, k |-> k])

\* what the user may type at the prompts
TypedInputs ==
    [name : {<<>>, <<"M", "y", " ", "a", "p", "p", " ">>},
     types : {<<TypeEmpty>>, <<TypeJunk, TypeInt(7), TypeInt(3)>>},
     answers : [1..(Len(available_domains) - 1) -> {<<"n">>, <<" ", "Y", "E", "S">>}],
     description : {<<"d", "e", "m", "o", " ">>}]

Main ==
    /\ pc = "main"
    /\ IF InteractiveMode(args)
       THEN \E inp \in TypedInputs :
               /\ config' = InteractiveConfig(inp)
               /\ mode' = "interactive"
               /\ prompts' = InteractivePrompts(inp)
       ELSE /\ config' = FlagConfig(args)
            /\ mode' = "flags"
            /\ prompts' = 0
    /\ pc' = SetupSteps[1]
    /\ UNCHANGED <<args, requested, remote, coreIdx, domIdx, pending, fileIdx, dirs,
                   fileMode, claudeMd, gitignore, log, stdout, giRuns, giHistory>>

Mkdir ==
    /\ pc = "mkdir"
    /\ dirs' = dirs \cup {claude_dir}
    /\ log' = Append(log, Event("mkdir", "dir", 0, 0, claude_dir, TRUE, 0))
    /\ pc' = StepAfter("mkdir")
    /\ UNCHANGED <<args, requested, remote, mode, prompts, config, coreIdx, domIdx,
                   pending, fileIdx, fileMode, claudeMd, gitignore, stdout, giRuns,
                   giHistory>>

FetchCore ==
    /\ pc = "core"
    /\ \E ok \in FetchOutcomes(remote) :
          LET dest == PathJoin(project_root, StripCore(core_files[coreIdx]))
              next == NextIndex(coreIdx, Len(core_files), ok)
          IN /\ log' = Append(log, Event("fetch_file", "core", 0, coreIdx, dest, ok, 0))
             /\ dirs' = dirs \cup {Parent(Resolve(dest))}
             /\ fileMode' = Fetched(fileMode, dest, ok)
             /\ stdout' = Printed(stdout, "core", 0, coreIdx, ok)
             /\ coreIdx' = next
             /\ pc' = IF next > Len(core_files) THEN StepAfter("core") ELSE pc
    /\ UNCHANGED <<args, requested, remote, mode, prompts, config, domIdx, pending,
                   fileIdx, claudeMd, gitignore, giRuns, giHistory>>

\* apply_domain up to its first fetch_file
FetchManifest ==
    /\ pc = "domains"
    /\ fileIdx = 0
    /\ \E m \in ManifestReplies(remote) :
          LET listed == IF Usable(m) THEN Listed(m.files) ELSE <<>>
              next == NextDomain(domIdx, Len(config.domains), Usable(m))
          IN /\ log' = Append(log, Event("fetch_manifest", "manifest", domIdx, 0, <<>>,
                                         m.fetched, Len(listed)))
             /\ stdout' = Printed(stdout, "manifest", domIdx, 0, m.fetched)
             /\ IF listed = <<>>
                THEN /\ domIdx' = next
                     /\ pc' = IF next > Len(config.domains) THEN StepAfter("domains") ELSE pc
                     /\ UNCHANGED <<pending, fileIdx>>
                ELSE /\ pending' = listed
                     /\ fileIdx' = 1
                     /\ UNCHANGED <<domIdx, pc>>
    /\ UNCHANGED <<args, requested, remote, mode, prompts, config, coreIdx, dirs,
                   fileMode, claudeMd, gitignore, giRuns, giHistory>>

\* one round of the loops of apply_domain
FetchDomainFile ==
    /\ pc = "domains"
    /\ fileIdx >= 1
    /\ \E ok \in FetchOutcomes(remote) :
          LET item == pending[fileIdx]
              dest == PathJoin(PathJoin(project_root, item.dir), <<item.name>>)
              next == NextIndex(fileIdx, Len(pending), ok)
              nextDom == NextDomain(domIdx, Len(config.domains), TRUE)
          IN /\ log' = Append(log, Event("fetch_file", "file", domIdx, fileIdx, dest, ok, 0))
             /\ dirs' = dirs \cup {Parent(Resolve(dest))}
             /\ fileMode' = Fetched(fileMode, dest, ok)
             /\ stdout' = Warned(Printed(stdout, "file", domIdx, fileIdx, ok),
                                 domIdx, fileIdx, ok)
             /\ IF next > Len(pending)
                THEN /\ pending' = <<>>
                     /\ fileIdx' = 0
                     /\ domIdx' = nextDom
                     /\ pc' = IF nextDom > Len(config.domains)
                              THEN StepAfter("domains") ELSE pc
                ELSE /\ fileIdx' = next
                     /\ UNCHANGED <<pending, domIdx, pc>>
    /\ UNCHANGED <<args, requested, remote, mode, prompts, config, coreIdx, claudeMd,
                   gitignore, giRuns, giHistory>>

CreateClaudeMd ==
    /\ pc = "claude_md"
    /\ claudeMd' = File(ClaudeMdText(config))
    /\ log' = Append(log, Event("write", "claude_md", 0, 0, claude_md_path, TRUE, 0))
    /\ pc' = StepAfter("claude_md")
    /\ UNCHANGED <<args, requested, remote, mode, prompts, config, coreIdx, domIdx,
                   pending, fileIdx, dirs, fileMode, gitignore, stdout, giRuns,
                   giHistory>>

CreateGitignore ==
    /\ pc = "gitignore"
    /\ gitignore' = GitignoreAfter(gitignore)
    /\ log' = Append(log, Event("write", "gitignore", 0, 0, gitignore_path,
                                gitignore' # gitignore, 0))
    /\ pc' = StepAfter("gitignore")
    /\ UNCHANGED <<args, requested, remote, mode, prompts, config, coreIdx, domIdx,
                   pending, fileIdx, dirs, fileMode, claudeMd, stdout, giRuns,
                   giHistory>>

\* fileMode after the chmod loop
Chmodded(fm, ds) ==
    IF hooks_dir \in ds
    THEN [f \in DOMAIN fm |-> IF f \in GlobPy(DOMAIN fm) THEN "0o755" ELSE fm[f]]
    ELSE fm

MakeHooksExecutable ==
    /\ pc = "chmod"
    /\ fileMode' = Chmodded(fileMode, dirs)
    /\ log' = Append(log, Event("chmod", "hooks", 0, 0, hooks_dir, hooks_dir \in dirs, 0))
    /\ pc' = StepAfter("chmod")
    /\ UNCHANGED <<args, requested, remote, mode, prompts, config, coreIdx, domIdx,
                   pending, fileIdx, dirs, claudeMd, gitignore, stdout, giRuns,
                   giHistory>>

Complete ==
    /\ pc = "complete"
    /\ log' = Append(log, Event("complete", "setup", 0, 0, <<>>, TRUE, 0))
    /\ pc' = StepAfter("complete")
    /\ UNCHANGED <<args, requested, remote, mode, prompts, config, coreIdx, domIdx,
                   pending, fileIdx, dirs, fileMode, claudeMd, gitignore, stdout,
                   giRuns, giHistory>>

Next ==
    \/ Main
    \/ Mkdir
    \/ FetchCore
    \/ FetchManifest
    \/ FetchDomainFile
    \/ CreateClaudeMd
    \/ CreateGitignore
    \/ MakeHooksExecutable
    \/ Complete

(***************************************************************************)
(* Initial states                                                          *)
(***************************************************************************)
RECURSIVE ListsUpTo(_, _)
\* the sequences over S of length 1..n
ListsUpTo(S, n) ==
    IF n = 0 THEN {}
    ELSE {<<x>> : x \in S}
         \cup {Append(l, x) : l \in ListsUpTo(S, n - 1), x \in S}

RECURSIVE TextsUpTo(_, _)
\* the texts over S of length 0..n
TextsUpTo(S, n) ==
    IF n = 0 THEN {<<>>}
    ELSE TextsUpTo(S, n - 1) \cup {Append(t, x) : t \in TextsUpTo(S, n - 1), x \in S}

demo == <<"d", "e", "m", "o">>

\* the state before main runs on command line a, --domains typed as the pieces req
Start(a, req, r, gi) ==
    /\ pc = "main"
    /\ args = a
    /\ requested = req
    /\ remote = r
    /\ mode = "none"
    /\ prompts = 0
    /\ config = [name |-> <<>>, type |-> <<>>, domains |-> <<>>, description |-> <<>>]
    /\ coreIdx = 1
    /\ domIdx = 1
    /\ pending = <<>>
    /\ fileIdx = 0
    /\ dirs = {project_root}
    /\ fileMode = <<>>
    /\ claudeMd = Absent
    /\ gitignore = gi
    /\ log = <<>>
    /\ stdout = <<>>
    /\ giRuns = 0
    /\ giHistory = <<>>

Cmd(i, n, t, d) == [interactive |-> i, name |-> n, type |-> t, domains |-> d]

\* flag runs against a remote where any fetch may fail
Init ==
    \E req \in ListsUpTo({python}, MaxDomains) :
        Start(Cmd(FALSE, Given(demo), NotGiven, Given(JoinStr(req, <<",">>))), req, "flaky",
              Absent)

Spec == Init /\ [][Next]_vars

\* comma-free pieces a --domains value is made of
MainPieces == {git, python, <<" ", "g", "i", "t", " ">>, <<>>, <<"a", NL, "w", "s">>}

\* every combination of the flags that select the mode, and every --domains value
\* of the non-interactive branch, against a remote that is down or up
InitMain ==
    \E r \in {"down", "up"} :
       \/ \E i \in BOOLEAN, n \in {NotGiven, Given(<<>>), Given(demo)} :
             \/ Start(Cmd(i, n, NotGiven, NotGiven), <<>>, r, Absent)
             \/ \E req \in {<< <<>> >>, <<git, python>>} :
                   Start(Cmd(i, n, NotGiven, Given(JoinStr(req, <<",">>))), req, r, Absent)
       \/ \E req \in ListsUpTo(MainPieces, MaxPieces),
             t \in {NotGiven, Given(<<"c", "l", "i">>)} :
             Start(Cmd(FALSE, Given(demo), t, Given(JoinStr(req, <<",">>))), req, r, Absent)

SpecMain == InitMain /\ [][Next]_vars

(***************************************************************************)
(* create_gitignore run again and again on one project directory           *)
(***************************************************************************)
GitignoreChars == {"#", "c", NL}

InitGitignore ==
    /\ \E gi \in {Absent} \cup {File(t) : t \in TextsUpTo(GitignoreChars, MaxLen)} :
          /\ gitignore = gi
          /\ giHistory = <<gi>>
    /\ giRuns = 0
    /\ pc = "gitignore"
    /\ args = Cmd(FALSE, NotGiven, NotGiven, NotGiven)
    /\ requested = <<>>
    /\ remote = "down"
    /\ mode = "none"
    /\ prompts = 0
    /\ config = [name |-> <<>>, type |-> <<>>, domains |-> <<>>, description |-> <<>>]
    /\ coreIdx = 1
    /\ domIdx = 1
    /\ pending = <<>>
    /\ fileIdx = 0
    /\ dirs = {project_root}
    /\ fileMode = <<>>
    /\ claudeMd = Absent
    /\ log = <<>>
    /\ stdout = <<>>

RunCreateGitignore ==
    /\ giRuns < MaxRuns
    /\ gitignore' = GitignoreAfter(gitignore)
    /\ giRuns' = giRuns + 1
    /\ giHistory' = Append(giHistory, gitignore')
    /\ UNCHANGED <<pc, args, requested, remote, mode, prompts, config, coreIdx, domIdx,
                   pending, fileIdx, dirs, fileMode, claudeMd, log, stdout>>

NextGitignore == RunCreateGitignore

SpecGitignore == InitGitignore /\ [][NextGitignore]_vars

(***************************************************************************)
(* Properties                                                              *)
(***************************************************************************)
Steps == 1..Len(log)

IsFetch(e) == e.op \in {"fetch_file", "fetch_manifest"}
IsCoreFetch(e, k) == e.op = "fetch_file" /\ e.kind = "core" /\ e.k = k
IsManifestFetch(e, d) == e.op = "fetch_manifest" /\ e.d = d
IsFileFetch(e, d, k) == e.op = "fetch_file" /\ e.kind = "file" /\ e.d = d /\ e.k = k
IsWrite(e, kind) == e.op = "write" /\ e.kind = kind

\* the step pc names can run
CanStep ==
    /\ pc \in {"main"} \cup {SetupSteps[i] : i \in 1..Len(SetupSteps)}
    /\ pc = "core" => coreIdx \in 1..Len(core_files)
    /\ pc = "domains" =>
          /\ domIdx \in 1..Len(config.domains)
          /\ fileIdx \in 0..Len(pending)

\* the steps after the domains all ran
Finished ==
    /\ \E i \in Steps : IsWrite(log[i], "claude_md")
    /\ \E i \in Steps : IsWrite(log[i], "gitignore")
    /\ \E i \in Steps : log[i].op = "complete"
    /\ claudeMd.exists
    /\ gitignore.exists

\* C1: whichever file fetches fail, each failure is printed and writes nothing,
\* every other core file and listed domain file is still attempted, nothing
\* fetched is removed again, and setup goes on to CLAUDE.md, .gitignore and
\* "setup complete".
C1_PartialSuccess ==
    /\ DOMAIN fileMode =
          {Resolve(log[i].dest) : i \in {j \in Steps : log[j].op = "fetch_file" /\ log[j].ok}}
    /\ \A i \in Steps :
          log[i].op = "fetch_file" /\ ~log[i].ok =>
             \E j \in 1..Len(stdout) :
                /\ stdout[j].msg = "Failed to fetch"
                /\ stdout[j].kind = log[i].kind
                /\ stdout[j].d = log[i].d
                /\ stdout[j].k = log[i].k
    /\ pc = "done" \/ CanStep
    /\ pc = "done" =>
          /\ \A k \in 1..Len(core_files) : \E i \in Steps : IsCoreFetch(log[i], k)
          /\ \A i \in Steps :
                log[i].op = "fetch_manifest" =>
                   \A k \in 1..log[i].n : \E j \in Steps : IsFileFetch(log[j], log[i].d, k)
          /\ Finished

\* a run that ended with a failed core fetch and a failed domain file fetch, each
\* followed by a fetch that succeeded
C1_Witness ==
    /\ pc = "done"
    /\ \E i, j \in Steps :
          i < j /\ log[i].kind = "core" /\ ~log[i].ok /\ log[j].kind = "core" /\ log[j].ok
    /\ \E i, j \in Steps :
          /\ i < j /\ log[i].kind = "file" /\ ~log[i].ok
          /\ log[j].kind = "file" /\ log[j].d = log[i].d /\ log[j].ok

\* C2: a domain whose manifest fetch failed has none of its files fetched, and
\* every other domain is still applied and setup completes.
C2_ManifestFailureSkipsDomain ==
    /\ \A i \in Steps :
          log[i].op = "fetch_manifest" /\ ~log[i].ok =>
             \A j \in Steps : ~(log[j].kind = "file" /\ log[j].d = log[i].d)
    /\ pc = "done" =>
          /\ \A d \in 1..Len(config.domains) : \E i \in Steps : IsManifestFetch(log[i], d)
          /\ Finished

\* a run that ended with the second domain's manifest failing and files fetched
\* for the domain before it and the domain after it
C2_Witness ==
    /\ pc = "done"
    /\ \E i \in Steps : IsManifestFetch(log[i], 2) /\ ~log[i].ok
    /\ \E i \in Steps : log[i].kind = "file" /\ log[i].d = 1 /\ log[i].ok
    /\ \E i \in Steps : log[i].kind = "file" /\ log[i].d = 3 /\ log[i].ok

\* C3: .claude is created before any fetch; every core file is fetched before
\* any manifest; the domains are applied one at a time in list order, each
\* manifest before the files of its domain; CLAUDE.md and then .gitignore are
\* written after every domain was applied; the chmod comes after both.
C3_Order ==
    /\ \A j \in Steps :
          IsFetch(log[j]) => \E i \in 1..(j - 1) : log[i].op = "mkdir"
    /\ \A j \in Steps :
          log[j].op = "fetch_manifest" =>
             /\ \A k \in 1..Len(core_files) : \E i \in 1..(j - 1) : IsCoreFetch(log[i], k)
             /\ \A i \in (j + 1)..Len(log) : log[i].kind # "core"
             /\ \A d \in 1..(log[j].d - 1) : \E i \in 1..(j - 1) : IsManifestFetch(log[i], d)
             /\ \A i \in (j + 1)..Len(log) :
                   log[i].op = "fetch_manifest" => log[i].d > log[j].d
    /\ \A j \in Steps :
          log[j].kind = "file" =>
             \E i \in 1..(j - 1) :
                /\ IsManifestFetch(log[i], log[j].d)
                /\ \A m \in (i + 1)..(j - 1) : log[m].op # "fetch_manifest"
    /\ \A j \in Steps :
          log[j].op = "write" =>
             /\ \A d \in 1..Len(config.domains) : \E i \in 1..(j - 1) : IsManifestFetch(log[i], d)
             /\ \A i \in (j + 1)..Len(log) : ~IsFetch(log[i])
    /\ \A j \in Steps :
          IsWrite(log[j], "gitignore") => \E i \in 1..(j - 1) : IsWrite(log[i], "claude_md")
    /\ \A j \in Steps :
          log[j].op = "chmod" => \E i \in 1..(j - 1) : IsWrite(log[i], "gitignore")

\* a finished run over three domains, with files fetched for the first and the last
C3_Witness ==
    /\ pc = "done"
    /\ Len(config.domains) = 3
    /\ \E i \in Steps : log[i].kind = "file" /\ log[i].d = 1
    /\ \E i \in Steps : log[i].kind = "file" /\ log[i].d = 3
    /\ \E i \in Steps : log[i].op = "chmod"

\* occurrences of sub in text
Count(text, sub) == Cardinality({i \in 1..Len(text) : MatchAt(text, sub, i)})

\* C4: run twice, create_gitignore leaves .gitignore as one run does, whatever the
\* file was; the Claude block is added at most once, and not at all when present.
C4_Idempotent ==
    /\ \A k \in 2..giRuns : giHistory[k + 1] = giHistory[2]
    /\ giRuns >= 1 =>
          /\ gitignore.exists
          /\ Count(gitignore.text, ClaudeMarker) >= 1
          /\ Count(gitignore.text, ClaudeMarker) <= Count(giHistory[1].text, ClaudeMarker) + 1
          /\ Count(giHistory[1].text, ClaudeMarker) >= 1 => gitignore = giHistory[1]

\* two runs on a .gitignore that existed without the block: it holds the block once
C4_Witness ==
    /\ giRuns = 2
    /\ giHistory[1].exists
    /\ giHistory[1].text # <<>>
    /\ Count(giHistory[1].text, ClaudeMarker) = 0
    /\ Count(gitignore.text, ClaudeMarker) = 1

\* the text after "**Domains**: " on the first line of CLAUDE.md that starts with it
DomainsLine(text) ==
    LET lines == SplitStr(text, <<NL>>)
        at == CHOOSE i \in 1..Len(lines) :
                 /\ lines[i] # <<>> /\ lines[i][1] = "**Domains**: "
                 /\ \A j \in 1..(i - 1) : lines[j] = <<>> \/ lines[j][1] # "**Domains**: "
    IN Tail(lines[at])

\* the domain list read back from CLAUDE.md
ParsedDomains(text) == SplitStr(DomainsLine(text), <<",", " ">>)

HasLineBreak(s) == \E i \in 1..Len(s) : s[i] = NL

\* C5 as stated: for every configuration, the Domains line of the rendered
\* CLAUDE.md splits on ', ' into the configuration's domain list.
C5_RoundTripEveryConfiguration ==
    claudeMd.exists => ParsedDomains(claudeMd.text) = config.domains

\* C5 as amended: the round trip holds for every configuration with a non-empty
\* domain list in which no field holds a line break and no domain name holds ', '.
C5_RoundTrip ==
    /\ claudeMd.exists
    /\ config.domains # <<>>
    /\ ~HasLineBreak(config.name)
    /\ ~HasLineBreak(config.type)
    /\ ~HasLineBreak(config.description)
    /\ \A i \in 1..Len(config.domains) :
          ~HasLineBreak(config.domains[i]) /\ ~Contains(config.domains[i], <<",", " ">>)
    => ParsedDomains(claudeMd.text) = config.domains

\* a rendered configuration of three domains, one of them empty, read back in order
C5_Witness ==
    /\ pc = "done"
    /\ config.domains = <<git, <<>>, python>>
    /\ ParsedDomains(claudeMd.text) = <<git, <<>>, python>>

\* C6: main builds the configuration from the flags, reading no prompt, exactly
\* when --interactive is not set and --name and --domains are both given and not
\* empty; otherwise the prompts of interactive_setup produce it.
C6_ModeSelection ==
    pc # "main" =>
       /\ mode = "flags" <=>
             /\ ~args.interactive
             /\ args.name.given /\ args.name.val # <<>>
             /\ args.domains.given /\ args.domains.val # <<>>
       /\ mode = "flags" => prompts = 0 /\ config.name = args.name.val
       /\ mode # "flags" =>
             /\ mode = "interactive"
             /\ prompts >= Len(available_domains) + 2
             /\ \A i \in 1..Len(config.domains) :
                   \E k \in 1..Len(available_domains) : config.domains[i] = available_domains[k]

\* --name and an empty --domains without --interactive: the prompts were read
C6_Witness ==
    /\ pc = "done"
    /\ ~args.interactive
    /\ args.name.val = demo
    /\ args.domains.given
    /\ args.domains.val = <<>>
    /\ mode = "interactive"
    /\ prompts > 0

IsDomainName(s) == s # <<>> /\ \A i \in 1..Len(s) : s[i] \in Letters

RECURSIVE OthersAfterGit(_)
\* ', ' and the name, for each requested name other than 'git', in the order given
OthersAfterGit(names) ==
    IF names = <<>> THEN <<>>
    ELSE (IF Head(names) = git THEN <<>> ELSE <<",", " ">> \o Head(names))
         \o OthersAfterGit(Tail(names))

\* C7: from flags, with --domains a comma-separated list of domain names, the
\* Domains line reads 'git' and then the requested names other than 'git' in the
\* order given, joined by ', ', and holds 'git' exactly once.
C7_FlagDomainsLine ==
    /\ pc = "done"
    /\ mode = "flags"
    /\ \A i \in 1..Len(requested) : IsDomainName(requested[i])
    => /\ DomainsLine(claudeMd.text) = git \o OthersAfterGit(requested)
       /\ Cardinality({i \in 1..Len(ParsedDomains(claudeMd.text)) :
                          ParsedDomains(claudeMd.text)[i] = git}) = 1

\* --name demo --domains git,python: the line reads 'git, python'
C7_Witness ==
    /\ pc = "done"
    /\ mode = "flags"
    /\ args.domains.val = <<"g", "i", "t", ",", "p", "y", "t", "h", "o", "n">>
    /\ DomainsLine(claudeMd.text) = <<"g", "i", "t", ",", " ", "p", "y", "t", "h", "o", "n">>

\* C8 as stated: when setup completes, every file fetched into .claude/hooks
\* during this run is runnable (0o755).
C8_FetchedHooksRunnable ==
    pc = "done" =>
       \A i \in Steps :
          /\ log[i].op = "fetch_file"
          /\ log[i].ok
          /\ Parent(Resolve(log[i].dest)) = hooks_dir
          => fileMode[Resolve(log[i].dest)] = "0o755"

\* C9: no fetch is issued twice for one listing, failed or not, and a finished run
\* issued each core fetch, each manifest fetch and each listed file fetch exactly once.
C9_NoRetry ==
    /\ \A i, j \in Steps :
          /\ i < j
          /\ IsFetch(log[i])
          /\ IsFetch(log[j])
          => <<log[i].kind, log[i].d, log[i].k>> # <<log[j].kind, log[j].d, log[j].k>>
    /\ pc = "done" =>
          /\ \A k \in 1..Len(core_files) :
                Cardinality({i \in Steps : IsCoreFetch(log[i], k)}) = 1
          /\ \A d \in 1..Len(config.domains) :
                Cardinality({i \in Steps : IsManifestFetch(log[i], d)}) = 1
          /\ \A i \in Steps :
                log[i].op = "fetch_manifest" =>
                   \A k \in 1..log[i].n :
                      Cardinality({j \in Steps : IsFileFetch(log[j], log[i].d, k)}) = 1

\* a finished run in which a core fetch, a manifest fetch and a domain file fetch failed
C9_Witness ==
    /\ pc = "done"
    /\ \E i \in Steps : log[i].kind = "core" /\ ~log[i].ok
    /\ \E i \in Steps : log[i].kind = "manifest" /\ ~log[i].ok
    /\ \E i \in Steps : log[i].kind = "file" /\ ~log[i].ok

\* C10 as stated: every file setup_project writes lies under the project root,
\* whatever the manifests list.
C10_WritesUnderRoot ==
    \A i \in Steps :
       log[i].op \in {"fetch_file", "write"} /\ log[i].ok =>
          IsPrefix(project_root, Resolve(log[i].dest))

====
